---- MODULE Spec2Model ----
(***************************************************************************)
(* sedshell: the blocking stream (sedshell/test_pipe.py), the keybinding   *)
(* store, the commands and the dispatch loop (sedshell/sedshell.py,        *)
(* sedshell/commands.py, and the earlier single-file cli-process.py).      *)
(*                                                                         *)
(* Text is a sequence of one-character strings, so that chunks can be      *)
(* split, joined and stripped the way the Python code does it.             *)
(***************************************************************************)
EXTENDS Integers, Sequences, FiniteSets, TLC

\* ------------------------------------------------------------------------
\* Bounds
\* ------------------------------------------------------------------------
MaxWrites == 3
MaxReads == 3
MaxLines == 2
MaxKeys == 4
MaxCalls == 3
MaxSends == 2

\* ------------------------------------------------------------------------
\* Text helpers
\* ------------------------------------------------------------------------
NL == "\n"

RECURSIVE Flatten(_)
Flatten(ss) == IF ss = <<>> THEN <<>> ELSE Head(ss) \o Flatten(Tail(ss))

HasNL(s) == \E i \in 1..Len(s) : s[i] = NL

FirstNL(s) == CHOOSE i \in 1..Len(s) : s[i] = NL /\ \A j \in 1..(i-1) : s[j] # NL

\* str.partition('\n'): (first, sep, second)
Partition(s) ==
    IF HasNL(s)
    THEN [first |-> SubSeq(s, 1, FirstNL(s) - 1), sep |-> <<NL>>,
          second |-> SubSeq(s, FirstNL(s) + 1, Len(s))]
    ELSE [first |-> s, sep |-> <<>>, second |-> <<>>]

\* the complete (newline-terminated) lines of a text, in order
RECURSIVE CompleteLines(_)
CompleteLines(s) ==
    IF HasNL(s)
    THEN <<SubSeq(s, 1, FirstNL(s))>> \o CompleteLines(SubSeq(s, FirstNL(s) + 1, Len(s)))
    ELSE <<>>

\* ------------------------------------------------------------------------
\* Blocking stream (Pipe): state
\* ------------------------------------------------------------------------
VARIABLES
    buffer,       \* Pipe._buffer: list of chunks
    closed,       \* Pipe.closed
    event,        \* Pipe._event: number of queued notifications
    wpc,          \* writer thread position
    chunks,       \* texts passed to write(), in order
    rpc,          \* reader thread position
    line_parts,   \* readline(): line_parts
    new_parts,    \* _read_line_parts(): line_parts
    results       \* values the reader's calls returned, in order

pipeVars == <<buffer, closed, event, wpc, chunks, rpc, line_parts, new_parts, results>>

\* ------------------------------------------------------------------------
\* Dispatch engine: state
\* ------------------------------------------------------------------------
VARIABLES
    program,      \* which entry point runs: the sedshell package or cli-process.py
    pc,           \* position of run(): readline, echo, key, handle, done, exited, error
    stdin,        \* lines the input stream will still return, in order
    stdin_closed, \* the input stream returns '' once stdin is exhausted
    line,         \* run(): line
    c,            \* run(): the keystroke last read
    command,      \* run(): command
    history,      \* ShellRunner._history (its last entry)
    file,         \* data.json
    letter,       \* save_last(): c, the destination key last read
    nkeys,        \* keystrokes read from the terminal so far
    ran,          \* full commands handed to the shell by the last step
    out,          \* what the last step wrote to the terminal
    asked         \* what the last step read from the terminal

engineVars == <<program, pc, stdin, stdin_closed, line, c, command, history, file,
                letter, nkeys, ran, out, asked>>

\* ------------------------------------------------------------------------
\* Keybinding store under concurrent callers: state
\* ------------------------------------------------------------------------
VARIABLES
    flock,        \* the process owning the lock on data.json.lck, or "none"
    mutex,        \* per process, the thread holding DATA_LOCK, or "none"
    wk,           \* per thread, its position in with_data and what it holds
    saves,        \* the store calls in the order their documents were written
    truncated,    \* data.json holds no complete JSON document: it is open for
                  \* writing with its content not written yet, or is malformed
    ncalls        \* store operations started so far

storeVars == <<flock, mutex, wk, saves, truncated, ncalls>>

\* ------------------------------------------------------------------------
\* Duplex channel: state
\* ------------------------------------------------------------------------
VARIABLES
    twin,         \* bipipe(): the two Pipes, each its buffer and closed flag
    sent,         \* per end, the texts it has written
    got           \* per end, the values its reads have returned

duplexVars == <<twin, sent, got>>

vars == <<pipeVars, engineVars, storeVars, duplexVars>>

CLOSE == [close |-> TRUE, text |-> <<>>]

Text(s) == [close |-> FALSE, text |-> s]

\* the texts the writer may pass to write()
Chunks == {<<"a">>, <<"b", NL>>, <<"a", NL, "b">>, <<NL>>, <<>>}

written == Flatten(chunks)

PipeInit ==
    /\ buffer = <<>>
    /\ closed = FALSE
    /\ event = 0
    /\ wpc = "run"
    /\ chunks = <<>>
    /\ rpc = "idle"
    /\ line_parts = <<>>
    /\ new_parts = <<>>
    /\ results = <<>>

\* ------------------------------------------------------------------------
\* Writer
\* ------------------------------------------------------------------------
PipeWrite_prepends(b, part) == <<part>> \o b

\* self.buffer.append(text)
PipeWrite(b, part) == Append(b, part)

Notify_lost(e) == e

\* self._event.put(True)
Notify(e) == e + 1

Write(text) ==
    /\ wpc = "run"
    /\ Len(chunks) < MaxWrites
    /\ buffer' = PipeWrite(buffer, Text(text))
    /\ event' = Notify(event)
    /\ chunks' = Append(chunks, text)
    /\ UNCHANGED <<closed, wpc, rpc, line_parts, new_parts, results, engineVars, storeVars, duplexVars>>

\* close(): the locked section that sets the flag
CloseMark ==
    /\ wpc = "run"
    /\ closed' = TRUE
    /\ wpc' = "close_write"
    /\ UNCHANGED <<buffer, event, chunks, rpc, line_parts, new_parts, results, engineVars, storeVars, duplexVars>>

\* close(): self.write(CLOSE)
CloseWrite ==
    /\ wpc = "close_write"
    /\ buffer' = PipeWrite(buffer, CLOSE)
    /\ event' = Notify(event)
    /\ wpc' = "done"
    /\ UNCHANGED <<closed, chunks, rpc, line_parts, new_parts, results, engineVars, storeVars, duplexVars>>

\* ------------------------------------------------------------------------
\* Reader: readline
\* ------------------------------------------------------------------------
Returned(op, value) == Append(results, [op |-> op, value |-> value])

ReadLineCall ==
    /\ rpc = "idle"
    /\ Len(results) < MaxReads
    /\ rpc' = "rl_parts"
    /\ line_parts' = <<>>
    /\ new_parts' = <<>>
    /\ UNCHANGED <<buffer, closed, event, wpc, chunks, results, engineVars, storeVars, duplexVars>>

\* what _read_line_parts puts back after a chunk that holds a newline
PushBack_dropsRest(b, second) == b

PushBack(b, second) == <<Text(second)>> \o b

\* one pass of the loop of _read_line_parts (one locked section), with the
\* handling of its return value in readline
ReadLineParts ==
    /\ rpc = "rl_parts"
    /\ IF buffer = <<>>
       THEN \* return line_parts, None; readline extends and goes to wait
            /\ line_parts' = line_parts \o new_parts
            /\ new_parts' = <<>>
            /\ rpc' = "rl_check"
            /\ UNCHANGED <<buffer, closed, results, engineVars, storeVars, duplexVars>>
       ELSE LET part == Head(buffer) IN
            IF part = CLOSE
            THEN /\ buffer' = Tail(buffer)
                 /\ closed' = TRUE
                 /\ results' = Returned("readline", line_parts \o new_parts)
                 /\ line_parts' = <<>>
                 /\ new_parts' = <<>>
                 /\ rpc' = "idle"
            ELSE LET p == Partition(part.text) IN
                 IF p.sep # <<>>
                 THEN /\ buffer' = PushBack(Tail(buffer), p.second)
                      /\ results' = Returned("readline",
                                       line_parts \o new_parts \o p.first \o p.sep)
                      /\ line_parts' = <<>>
                      /\ new_parts' = <<>>
                      /\ rpc' = "idle"
                      /\ UNCHANGED closed
                 ELSE /\ buffer' = Tail(buffer)
                      /\ new_parts' = new_parts \o p.first
                      /\ UNCHANGED <<closed, results, line_parts, rpc, engineVars, storeVars, duplexVars>>
    /\ UNCHANGED <<event, wpc, chunks, engineVars, storeVars, duplexVars>>

\* readline: "if self.closed: continue" else wait for a notification
ReadLineCheckClosed ==
    /\ rpc = "rl_check"
    /\ rpc' = IF closed THEN "rl_parts" ELSE "rl_wait"
    /\ UNCHANGED <<buffer, closed, event, wpc, chunks, line_parts, new_parts, results, engineVars, storeVars, duplexVars>>

\* readline: self._event.get()
ReadLineWait ==
    /\ rpc = "rl_wait"
    /\ event > 0
    /\ event' = event - 1
    /\ rpc' = "rl_parts"
    /\ UNCHANGED <<buffer, closed, wpc, chunks, line_parts, new_parts, results, engineVars, storeVars, duplexVars>>

\* ------------------------------------------------------------------------
\* Reader: readchar
\* ------------------------------------------------------------------------
ReadCharCall ==
    /\ rpc = "idle"
    /\ Len(results) < MaxReads
    /\ rpc' = "rc_locked"
    /\ UNCHANGED <<buffer, closed, event, wpc, chunks, line_parts, new_parts, results, engineVars, storeVars, duplexVars>>

\* the buffer after readchar took the first character of its first chunk
TakeChar_dropsRest(b) == Tail(b)

TakeChar(b) ==
    LET part == Head(b).text IN
    IF Len(part) > 1 THEN <<Text(Tail(part))>> \o Tail(b) ELSE Tail(b)

\* c = part[:1]
FirstChar(part) == IF part = <<>> THEN <<>> ELSE <<Head(part)>>

ReturnsChar_always(ch) == TRUE

\* 'if c:' an empty chunk gives no character and the loop goes on
ReturnsChar(ch) == ch # <<>>

\* one pass of the loop of readchar (one locked section)
ReadCharLocked ==
    /\ rpc = "rc_locked"
    /\ IF buffer # <<>>
       THEN IF Head(buffer) = CLOSE
            THEN /\ results' = Returned("readchar", <<>>)
                 /\ rpc' = "idle"
                 /\ UNCHANGED buffer
            ELSE /\ buffer' = TakeChar(buffer)
                 /\ IF ReturnsChar(FirstChar(Head(buffer).text))
                    THEN /\ results' = Returned("readchar", FirstChar(Head(buffer).text))
                         /\ rpc' = "idle"
                    ELSE UNCHANGED <<results, rpc>>
       ELSE /\ rpc' = "rc_wait"
            /\ UNCHANGED <<buffer, results, engineVars, storeVars, duplexVars>>
    /\ UNCHANGED <<closed, event, wpc, chunks, line_parts, new_parts, engineVars, storeVars, duplexVars>>

\* readchar: self._event.get()
ReadCharWait ==
    /\ rpc = "rc_wait"
    /\ event > 0
    /\ event' = event - 1
    /\ rpc' = "rc_locked"
    /\ UNCHANGED <<buffer, closed, wpc, chunks, line_parts, new_parts, results, engineVars, storeVars, duplexVars>>


\* ------------------------------------------------------------------------
\* Dispatch engine: text helpers
\* ------------------------------------------------------------------------
Whitespace == {" ", NL}

RECURSIVE LStrip(_, _)
LStrip(s, cs) == IF s # <<>> /\ Head(s) \in cs THEN LStrip(Tail(s), cs) ELSE s

RECURSIVE RStrip(_, _)
RStrip(s, cs) ==
    IF s # <<>> /\ s[Len(s)] \in cs THEN RStrip(SubSeq(s, 1, Len(s) - 1), cs) ELSE s

\* str.strip() and str.strip('\n')
Strip(s) == RStrip(LStrip(s, Whitespace), Whitespace)

StripNL(s) == RStrip(LStrip(s, {NL}), {NL})

Lower(ch) == IF ch = "A" THEN "a" ELSE IF ch = "B" THEN "b" ELSE ch

LowerAll(s) == [i \in 1..Len(s) |-> Lower(s[i])]

\* re.search(regex, line, re.IGNORECASE) for a regex made of literal characters
Search(regex, text) ==
    \E i \in 1..(Len(text) + 1) :
        /\ i + Len(regex) - 1 <= Len(text)
        /\ LowerAll(SubSeq(text, i, i + Len(regex) - 1)) = LowerAll(regex)


\* ------------------------------------------------------------------------
\* Keybinding store: data.json
\* ------------------------------------------------------------------------
EmptyDict == [k \in {} |-> [command |-> <<>>, consume |-> FALSE]]

\* no data.json in the configuration directory
Absent == [exists |-> FALSE, text |-> EmptyDict]

\* json.dumps / json.loads of {"commands": {char: [command, consume]}}:
\* the flag is written as the token true or false
JsonDumps_flagAlwaysTrue(data) ==
    [k \in DOMAIN data |-> [command |-> data[k].command, consume |-> "true"]]

JsonDumps(data) ==
    [k \in DOMAIN data |->
        [command |-> data[k].command,
         consume |-> IF data[k].consume THEN "true" ELSE "false"]]

JsonLoads(text) ==
    [k \in DOMAIN text |->
        [command |-> text[k].command, consume |-> text[k].consume = "true"]]

\* read_json, followed by the setdefault('commands', dict()) of every caller
read_json(f) == IF f.exists THEN JsonLoads(f.text) ELSE EmptyDict

\* with_data: what is written back when the block ends
with_data(data) == [exists |-> TRUE, text |-> JsonDumps(data)]

\* data['commands'][char] = [command, consume]
SetBinding_replacesAll(data, char, cmd, consume) ==
    [k \in {char} |-> [command |-> cmd, consume |-> consume]]

SetBinding(data, char, cmd, consume) ==
    [k \in DOMAIN data \cup {char} |->
        IF k = char THEN [command |-> cmd, consume |-> consume] ELSE data[k]]

\* ShellCommandStore.store: the file it leaves
store(f, char, cmd, consume) == with_data(SetBinding(read_json(f), char, cmd, consume))

\* ------------------------------------------------------------------------
\* Commands
\* ------------------------------------------------------------------------
EOT == "EOT"   \* the character \x04

Instance(kind, cmd, consume) ==
    [kind |-> kind, command |-> cmd, consume |-> consume,
     regex_set |-> FALSE, regex |-> <<>>, finished |-> FALSE]

None == Instance("None", <<>>, FALSE)

\* the commands table of run(); cli-process.py has no '/'
commands(prog) ==
    LET common == ("!" :> "run") @@ ("&" :> "run_no_consume") @@ (EOT :> "exit")
                  @@ ("^" :> "repeat") @@ ("$" :> "run_shell") @@ (">" :> "save_last")
                  @@ ("<" :> "run_raw") @@ (" " :> "skip") @@ ("?" :> "show_help")
                  @@ ("\\" :> "skip_while")
    IN IF prog = "sedshell" THEN common @@ ("/" :> "skip_until") ELSE common

\* ShellCommandStore.lookup: the command class it returns, None when unbound
lookup(f, char) ==
    LET data == read_json(f) IN
    IF char \in DOMAIN data
    THEN Instance("runner", data[char].command, data[char].consume)
    ELSE None

\* shell_store.lookup(c) or commands.get(c)
Resolve_builtinFirst(prog, f, char) ==
    IF char \in DOMAIN commands(prog) THEN Instance(commands(prog)[char], <<>>, FALSE)
    ELSE lookup(f, char)

Resolve(prog, f, char) ==
    IF lookup(f, char) # None THEN lookup(f, char)
    ELSE IF char \in DOMAIN commands(prog) THEN Instance(commands(prog)[char], <<>>, FALSE)
    ELSE None

\* Command.done_processing
done_processing_never(cmd) ==
    IF cmd.kind \in {"skip_while", "skip_until"} THEN FALSE ELSE TRUE

done_processing(cmd) ==
    IF cmd.kind \in {"skip_while", "skip_until"} THEN cmd.finished ELSE TRUE

\* run_command: '{} {}'.format(command, line)
full_command(cmd, l) == cmd \o <<" ">> \o l

\* a command handed to the shell, and whether it exited with status 0
Ran(full, succeeded) == [full |-> full, succeeded |-> succeeded]

\* the values the handlers return to the loop of run()
RunResult_unconditional(succeeded) == TRUE

RunResult(succeeded) == succeeded

RunNoConsumeResult_bySuccess(succeeded) == succeeded

RunNoConsumeResult(succeeded) == FALSE

RunnerResult_bySuccess(consume, succeeded) == consume /\ succeeded

RunnerResult(consume, succeeded) == consume

RepeatResult_ignoresSuccess(consume, succeeded) == consume

RepeatResult(consume, succeeded) == consume /\ succeeded

\* commands.py calls prompt() but does not define or import it;
\* cli-process.py defines it in the same module
PromptDefined(prog) == prog = "cli-process"

\* ------------------------------------------------------------------------
\* Dispatch engine: inputs
\* ------------------------------------------------------------------------
Programs == {"sedshell", "cli-process"}

Keys == DOMAIN commands("sedshell") \cup {"c", "z"}

\* what readline returns for the lines of the input stream
Lines == {<<"a", NL>>, <<" ", "b", NL>>, <<" ", NL>>}

\* what the operator types at the 'Command:' and 'Regex:' prompts
CommandInputs == {<<"x", NL>>, <<" ", "y", NL>>}

RegexInputs == {<<"A", NL>>, <<"b", NL>>}

BoundedSeq(S, n) == UNION {[1..m -> S] : m \in 0..n}

\* data.json as an earlier run may have left it
InitFiles ==
    {Absent,
     store(Absent, "c", <<"x">>, TRUE),
     store(store(Absent, "c", <<"y">>, FALSE), "!", <<"x">>, TRUE)}

Wrote(w, text) == [w |-> w, text |-> text]

EngineInit ==
    /\ program \in Programs
    /\ pc = "readline"
    /\ stdin \in BoundedSeq(Lines, MaxLines)
    /\ stdin_closed \in BOOLEAN
    /\ line = <<>>
    /\ c = ""
    /\ command = None
    /\ history = <<>>
    /\ file \in InitFiles
    /\ letter = ""
    /\ nkeys = 0
    /\ ran = <<>>
    /\ out = <<Wrote("banner", <<>>)>>
    /\ asked = {}

\* ------------------------------------------------------------------------
\* Dispatch engine: run()
\* ------------------------------------------------------------------------
Uncaught_reprompts == "echo"

\* run() has no try: an exception raised by a handler ends it
Uncaught == "error"

\* the inner loop ends when handle_line returned a true value
Finish(finished) == IF finished THEN "readline" ELSE "echo"

\* line = stdin.readline().strip(); an empty line ends the loop
ReadLine ==
    /\ pc = "readline"
    /\ stdin # <<>> \/ stdin_closed
    /\ LET raw == IF stdin # <<>> THEN Head(stdin) ELSE <<>> IN
       /\ line' = Strip(raw)
       /\ pc' = IF Strip(raw) = <<>> THEN "done" ELSE "echo"
    /\ stdin' = IF stdin # <<>> THEN Tail(stdin) ELSE stdin
    /\ ran' = <<>> /\ out' = <<>> /\ asked' = {}
    /\ UNCHANGED <<program, stdin_closed, c, command, history, file, letter, nkeys, pipeVars, storeVars, duplexVars>>

\* terminal.write(line + "\n"), then the test on the current command
Echo ==
    /\ pc = "echo"
    /\ out' = <<Wrote("line", line \o <<NL>>)>>
    /\ pc' = IF command = None \/ done_processing(command) THEN "key" ELSE "handle"
    /\ ran' = <<>> /\ asked' = {}
    /\ UNCHANGED <<program, stdin, stdin_closed, line, c, command, history, file, letter, nkeys, pipeVars, storeVars, duplexVars>>

\* show_help: both menus; shell_store.menu() rewrites data.json
HelpText == <<Wrote("menu", <<>>), Wrote("store menu", <<>>)>>

AfterHelp_nextLine == "readline"

\* 'continue' after show_help: back to the top of the inner loop
AfterHelp == "echo"

\* c = readchar(terminal); lookup; instantiate; help when there is no command
ReadKey(k) ==
    /\ pc = "key"
    /\ nkeys < MaxKeys
    /\ nkeys' = nkeys + 1
    /\ c' = k
    /\ asked' = {"keystroke"}
    /\ ran' = <<>>
    /\ LET looked == with_data(read_json(file))
           cmd == Resolve(program, file, k)
       IN IF cmd # None
          THEN /\ command' = cmd
               /\ file' = looked
               /\ out' = <<>>
               /\ pc' = "handle"
          ELSE IF program = "cli-process"
          THEN \* CommandClass() with CommandClass None raises TypeError
               /\ file' = looked
               /\ out' = <<>>
               /\ pc' = Uncaught
               /\ UNCHANGED command
          ELSE /\ command' = None
               /\ file' = with_data(read_json(looked))
               /\ out' = HelpText
               /\ pc' = AfterHelp
    /\ UNCHANGED <<program, stdin, stdin_closed, line, history, letter, pipeVars, storeVars, duplexVars>>

Handling(kind) == pc = "handle" /\ command.kind = kind

\* ShellRunner._read_command appends to the history; only its last entry
\* is ever read
Remember_alwaysConsume(cmd, consume) == <<[command |-> cmd, consume |-> TRUE]>>

Remember(cmd, consume) == <<[command |-> cmd, consume |-> consume]>>

\* ShellRunner.run
HandleRun ==
    /\ Handling("run")
    /\ \E raw \in CommandInputs, succeeded \in BOOLEAN :
        /\ history' = Remember(Strip(raw), TRUE)
        /\ ran' = <<Ran(full_command(Strip(raw), line), succeeded)>>
        /\ pc' = Finish(RunResult(succeeded))
    /\ out' = <<Wrote("Command:", <<>>)>>
    /\ asked' = {"command"}
    /\ UNCHANGED <<program, stdin, stdin_closed, line, c, command, file, letter, nkeys, pipeVars, storeVars, duplexVars>>

\* ShellRunner.run_no_consume
HandleRunNoConsume ==
    /\ Handling("run_no_consume")
    /\ \E raw \in CommandInputs, succeeded \in BOOLEAN :
        /\ history' = Remember(Strip(raw), FALSE)
        /\ ran' = <<Ran(full_command(Strip(raw), line), succeeded)>>
        /\ pc' = Finish(RunNoConsumeResult(succeeded))
    /\ out' = <<Wrote("Command:", <<>>)>>
    /\ asked' = {"command"}
    /\ UNCHANGED <<program, stdin, stdin_closed, line, c, command, file, letter, nkeys, pipeVars, storeVars, duplexVars>>

\* the runner that ShellCommandStore.lookup builds
HandleRunner ==
    /\ Handling("runner")
    /\ \E succeeded \in BOOLEAN :
        /\ ran' = <<Ran(full_command(command.command, line), succeeded)>>
        /\ pc' = Finish(RunnerResult(command.consume, succeeded))
    /\ out' = <<>>
    /\ asked' = {}
    /\ UNCHANGED <<program, stdin, stdin_closed, line, c, command, history, file, letter, nkeys, pipeVars, storeVars, duplexVars>>

\* ShellRunner.repeat; self._history[-1] raises IndexError on an empty history
HandleRepeat ==
    /\ Handling("repeat")
    /\ IF history = <<>>
       THEN /\ pc' = Uncaught
            /\ ran' = <<>>
       ELSE \E succeeded \in BOOLEAN :
            /\ ran' = <<Ran(full_command(history[1].command, line), succeeded)>>
            /\ pc' = Finish(RepeatResult(history[1].consume, succeeded))
    /\ out' = <<>>
    /\ asked' = {}
    /\ UNCHANGED <<program, stdin, stdin_closed, line, c, command, history, file, letter, nkeys, pipeVars, storeVars, duplexVars>>

\* ShellRunner.save_last
HandleSaveLast ==
    /\ Handling("save_last")
    /\ nkeys < MaxKeys
    /\ nkeys' = nkeys + 1
    /\ \E k \in Keys :
        /\ letter' = k
        /\ IF history = <<>>
           THEN /\ pc' = Uncaught
                /\ UNCHANGED file
           ELSE /\ file' = store(file, k, history[1].command, history[1].consume)
                /\ pc' = Finish(FALSE)
    /\ out' = <<Wrote("Command letter?", <<>>)>>
    /\ asked' = {"letter"}
    /\ ran' = <<>>
    /\ UNCHANGED <<program, stdin, stdin_closed, line, c, command, history, pipeVars, storeVars, duplexVars>>

\* ShellRunner.skip
HandleSkip ==
    /\ Handling("skip")
    /\ pc' = Finish(TRUE)
    /\ ran' = <<>> /\ out' = <<>> /\ asked' = {}
    /\ UNCHANGED <<program, stdin, stdin_closed, line, c, command, history, file, letter, nkeys, pipeVars, storeVars, duplexVars>>

\* show_help as a command
HandleShowHelp ==
    /\ Handling("show_help")
    /\ out' = HelpText
    /\ file' = with_data(read_json(file))
    /\ pc' = Finish(FALSE)
    /\ ran' = <<>> /\ asked' = {}
    /\ UNCHANGED <<program, stdin, stdin_closed, line, c, command, history, letter, nkeys, pipeVars, storeVars, duplexVars>>

\* ShellRunner.run_shell
HandleRunShell ==
    /\ Handling("run_shell")
    /\ pc' = Finish(FALSE)
    /\ ran' = <<>> /\ out' = <<>> /\ asked' = {}
    /\ UNCHANGED <<program, stdin, stdin_closed, line, c, command, history, file, letter, nkeys, pipeVars, storeVars, duplexVars>>

\* ShellRunner.run_raw: runs the command alone and returns None
HandleRunRaw ==
    /\ Handling("run_raw")
    /\ \E raw \in CommandInputs, succeeded \in BOOLEAN :
        ran' = <<Ran(Strip(raw), succeeded)>>
    /\ pc' = Finish(FALSE)
    /\ out' = <<Wrote("Command:", <<>>)>>
    /\ asked' = {"command"}
    /\ UNCHANGED <<program, stdin, stdin_closed, line, c, command, history, file, letter, nkeys, pipeVars, storeVars, duplexVars>>

\* ShellRunner.exit: sys.exit()
HandleExit_returns ==
    /\ Handling("exit")
    /\ pc' = Finish(FALSE)
    /\ ran' = <<>> /\ out' = <<>> /\ asked' = {}
    /\ UNCHANGED <<program, stdin, stdin_closed, line, c, command, history, file, letter, nkeys, pipeVars, storeVars, duplexVars>>

HandleExit ==
    /\ Handling("exit")
    /\ pc' = "exited"
    /\ ran' = <<>> /\ out' = <<>> /\ asked' = {}
    /\ UNCHANGED <<program, stdin, stdin_closed, line, c, command, history, file, letter, nkeys, pipeVars, storeVars, duplexVars>>

\* the body shared by SkipWhileCommand.handle_line and
\* SkipUntilCommand.handle_line: the command stops on the first line for
\* which re.search(...) is stop_on_match
HandleFilter(stop_on_match) ==
    /\ IF ~command.regex_set /\ ~PromptDefined(program)
       THEN \* NameError: name 'prompt' is not defined
            /\ pc' = Uncaught
            /\ out' = <<>>
            /\ asked' = {}
            /\ UNCHANGED command
       ELSE \E raw \in RegexInputs :
            LET regex == IF command.regex_set THEN command.regex ELSE StripNL(raw)
                stop == Search(regex, line) = stop_on_match
            IN /\ command' = [command EXCEPT !.regex_set = TRUE, !.regex = regex,
                                             !.finished = stop]
               /\ out' = (IF command.regex_set THEN <<>> ELSE <<Wrote("Regex:", <<>>)>>)
                         \o (IF stop THEN <<Wrote("newline", <<NL>>)>> ELSE <<>>)
               /\ asked' = IF command.regex_set THEN {} ELSE {"regex"}
               /\ pc' = Finish(~stop)
    /\ ran' = <<>>
    /\ UNCHANGED <<program, stdin, stdin_closed, line, c, history, file, letter, nkeys, pipeVars, storeVars, duplexVars>>

\* SkipWhileCommand.handle_line: stops when re.search finds nothing
HandleSkipWhile ==
    /\ Handling("skip_while")
    /\ HandleFilter(FALSE)

\* SkipUntilCommand.handle_line: stops when re.search finds a match
HandleSkipUntil ==
    /\ Handling("skip_until")
    /\ HandleFilter(TRUE)

\* ------------------------------------------------------------------------
\* Keybinding store under concurrent callers: with_data
\* ------------------------------------------------------------------------
\* callers of the store on one configuration directory: two threads of one
\* process and a thread of another process
Threads == {"t1", "t2", "t3"}

Proc(t) == IF t = "t3" THEN "q" ELSE "p"

Procs == {Proc(t) : t \in Threads}

\* ShellCommandStore.store and ShellCommandStore.lookup (menu reads and
\* writes back like lookup)
StoreCalls ==
    {[kind |-> "store", char |-> "c", command |-> <<"x">>, consume |-> TRUE],
     [kind |-> "store", char |-> "d", command |-> <<"y">>, consume |-> FALSE],
     [kind |-> "store", char |-> "c", command |-> <<"y">>, consume |-> FALSE],
     [kind |-> "lookup", char |-> "c", command |-> <<>>, consume |-> FALSE]}

NoCall == [kind |-> "none", char |-> "", command |-> <<>>, consume |-> FALSE]

StoreInit ==
    /\ flock = "none"
    /\ mutex = [p \in Procs |-> "none"]
    /\ wk = [t \in Threads |->
                [pc |-> "idle", op |-> NoCall, data |-> EmptyDict, raised |-> FALSE]]
    /\ saves = <<>>
    /\ truncated = FALSE
    /\ ncalls = 0

\* the stream and the engine are not involved
StoreUnchanged ==
    UNCHANGED <<pipeVars, program, pc, stdin, stdin_closed, line, c, command,
                history, letter, nkeys, ran, out, asked, duplexVars>>

\* a thread enters store() or lookup()
Call(t, op) ==
    /\ wk[t].pc = "idle"
    /\ ncalls < MaxCalls
    /\ ncalls' = ncalls + 1
    /\ wk' = [wk EXCEPT ![t] = [pc |-> "flock", op |-> op, data |-> EmptyDict,
                                raised |-> FALSE]]
    /\ UNCHANGED <<flock, mutex, saves, truncated, file>>
    /\ StoreUnchanged

\* fasteners.InterProcessLock(data_file + '.lck').__enter__: a POSIX record
\* lock (fcntl.lockf) on a descriptor opened for this call. The lock belongs
\* to the process: it is refused while another process owns it and granted
\* while no process or the caller's own process owns it
CanLock(t) == flock \in {"none", Proc(t)}

AcquireFile(t) ==
    /\ wk[t].pc = "flock"
    /\ CanLock(t)
    /\ flock' = Proc(t)
    /\ wk' = [wk EXCEPT ![t].pc = "mutex"]
    /\ UNCHANGED <<mutex, saves, truncated, ncalls, file>>
    /\ StoreUnchanged

\* with DATA_LOCK
AcquireMutex(t) ==
    /\ wk[t].pc = "mutex"
    /\ mutex[Proc(t)] = "none"
    /\ mutex' = [mutex EXCEPT ![Proc(t)] = t]
    /\ wk' = [wk EXCEPT ![t].pc = "load"]
    /\ UNCHANGED <<flock, saves, truncated, ncalls, file>>
    /\ StoreUnchanged

\* the body of the with block: setdefault and, for store, the assignment
Body(op, data) ==
    IF op.kind = "store"
    THEN SetBinding(data, op.char, op.command, op.consume)
    ELSE data

Unwind_leaksLocks == "dead"

\* an exception raised inside the two with blocks leaves them through
\* their __exit__: DATA_LOCK is released, then the file lock
Unwind == "unmutex"

\* data = read_json(data_file), then the body; json.loads of a file that
\* has been truncated and not yet written raises ValueError, which leaves
\* both with blocks without writing
Load(t) ==
    /\ wk[t].pc = "load"
    /\ IF truncated
       THEN wk' = [wk EXCEPT ![t].pc = Unwind, ![t].raised = TRUE]
       ELSE wk' = [wk EXCEPT ![t].pc = "open",
                             ![t].data = Body(wk[t].op, read_json(file))]
    /\ UNCHANGED <<flock, mutex, saves, truncated, ncalls, file>>
    /\ StoreUnchanged

\* open(data_file, 'w') after json.dumps(data): the file exists and is empty
Truncate(t) ==
    /\ wk[t].pc = "open"
    /\ truncated' = TRUE
    /\ file' = [exists |-> TRUE, text |-> EmptyDict]
    /\ wk' = [wk EXCEPT ![t].pc = "write"]
    /\ UNCHANGED <<flock, mutex, saves, ncalls>>
    /\ StoreUnchanged

\* stream.write(output) and the close of the stream
WriteDoc(t) ==
    /\ wk[t].pc = "write"
    /\ truncated' = FALSE
    /\ file' = with_data(wk[t].data)
    /\ saves' = Append(saves, [op |-> wk[t].op, doc |-> wk[t].data])
    /\ wk' = [wk EXCEPT ![t].pc = "unmutex"]
    /\ UNCHANGED <<flock, mutex, ncalls>>
    /\ StoreUnchanged

\* data.json as the store may find it: holding text that is not a JSON
\* document (edited by hand, or cut short by a crash) before any call
Corrupt ==
    /\ ncalls = 0
    /\ ~truncated
    /\ truncated' = TRUE
    /\ file' = [exists |-> TRUE, text |-> EmptyDict]
    /\ UNCHANGED <<flock, mutex, wk, saves, ncalls>>
    /\ StoreUnchanged

\* leaving 'with DATA_LOCK'
ReleaseMutex(t) ==
    /\ wk[t].pc = "unmutex"
    /\ mutex' = [mutex EXCEPT ![Proc(t)] = "none"]
    /\ wk' = [wk EXCEPT ![t].pc = "unflock"]
    /\ UNCHANGED <<flock, saves, truncated, ncalls, file>>
    /\ StoreUnchanged

\* InterProcessLock.__exit__: unlock and close the descriptor, which drops
\* the lock of the process whichever of its threads still relies on it; a
\* thread that raised ends here
ReleaseFile(t) ==
    /\ wk[t].pc = "unflock"
    /\ flock' = "none"
    /\ wk' = [wk EXCEPT ![t].pc = IF wk[t].raised THEN "dead" ELSE "idle"]
    /\ UNCHANGED <<mutex, saves, truncated, ncalls, file>>
    /\ StoreUnchanged

\* ------------------------------------------------------------------------
\* Duplex channel: bipipe and BidirectionalPipe. Each call on an end is one
\* step; a read that would block is a step that is not enabled
\* ------------------------------------------------------------------------
Ends == {"A", "B"}

\* bipipe: BidirectionalPipe(twin1, twin2), BidirectionalPipe(twin2, twin1)
ReadsFrom(e) == IF e = "A" THEN "twin1" ELSE "twin2"

WritesTo_loopback(e) == ReadsFrom(e)

WritesTo(e) == IF e = "A" THEN "twin2" ELSE "twin1"

\* the texts an end may pass to write()
DuplexChunks == {<<"a">>, <<"b", NL>>}

DuplexInit ==
    /\ twin = [p \in {"twin1", "twin2"} |-> [buffer |-> <<>>, closed |-> FALSE]]
    /\ sent = [e \in Ends |-> <<>>]
    /\ got = [e \in Ends |-> <<>>]

\* the other variables do not take part
DuplexUnchanged == UNCHANGED <<pipeVars, engineVars, storeVars>>

\* BidirectionalPipe.write: self._pipe2.write(text)
EndWrite(e, text) ==
    /\ Len(sent[e]) < MaxSends
    /\ ~twin[WritesTo(e)].closed
    /\ twin' = [twin EXCEPT ![WritesTo(e)].buffer = PipeWrite(@, Text(text))]
    /\ sent' = [sent EXCEPT ![e] = Append(@, text)]
    /\ UNCHANGED got
    /\ DuplexUnchanged

\* BidirectionalPipe.close: self._pipe2.close()
EndClose(e) ==
    /\ ~twin[WritesTo(e)].closed
    /\ twin' = [twin EXCEPT ![WritesTo(e)] =
                   [buffer |-> PipeWrite(@.buffer, CLOSE), closed |-> TRUE]]
    /\ UNCHANGED <<sent, got>>
    /\ DuplexUnchanged

\* readchar pops the empty chunks it meets
RECURSIVE DropEmpty(_)
DropEmpty(b) ==
    IF b # <<>> /\ Head(b) # CLOSE /\ Head(b).text = <<>>
    THEN DropEmpty(Tail(b)) ELSE b

\* BidirectionalPipe.readchar: self._pipe1.readchar(), once it can return
EndReadChar(e) ==
    LET b == DropEmpty(twin[ReadsFrom(e)].buffer) IN
    /\ Len(got[e]) < MaxReads
    /\ b # <<>>
    /\ IF Head(b) = CLOSE
       THEN /\ got' = [got EXCEPT ![e] = Append(@, <<>>)]
            /\ twin' = [twin EXCEPT ![ReadsFrom(e)].buffer = b]
       ELSE /\ got' = [got EXCEPT ![e] = Append(@, FirstChar(Head(b).text))]
            /\ twin' = [twin EXCEPT ![ReadsFrom(e)].buffer = TakeChar(b)]
    /\ UNCHANGED sent
    /\ DuplexUnchanged

\* what readline returns from buffer b having collected acc, and what it
\* leaves; ok is false when it would wait
RECURSIVE LineFrom(_, _)
LineFrom(b, acc) ==
    IF b = <<>> THEN [ok |-> FALSE, value |-> acc, rest |-> b, close |-> FALSE]
    ELSE IF Head(b) = CLOSE
    THEN [ok |-> TRUE, value |-> acc, rest |-> Tail(b), close |-> TRUE]
    ELSE LET p == Partition(Head(b).text) IN
         IF p.sep # <<>>
         THEN [ok |-> TRUE, value |-> acc \o p.first \o p.sep,
               rest |-> PushBack(Tail(b), p.second), close |-> FALSE]
         ELSE LineFrom(Tail(b), acc \o p.first)

\* BidirectionalPipe.readline: self._pipe1.readline(), once it can return
EndReadLine(e) ==
    LET r == LineFrom(twin[ReadsFrom(e)].buffer, <<>>) IN
    /\ Len(got[e]) < MaxReads
    /\ r.ok
    /\ got' = [got EXCEPT ![e] = Append(@, r.value)]
    /\ twin' = [twin EXCEPT ![ReadsFrom(e)] =
                   [buffer |-> r.rest, closed |-> @.closed \/ r.close]]
    /\ UNCHANGED sent
    /\ DuplexUnchanged

\* ------------------------------------------------------------------------
\* Specifications
\* ------------------------------------------------------------------------
\* the engine before it has started, for the runs of the stream alone
EngineIdle ==
    /\ program = "sedshell"
    /\ pc = "readline"
    /\ stdin = <<>>
    /\ stdin_closed = FALSE
    /\ line = <<>>
    /\ c = ""
    /\ command = None
    /\ history = <<>>
    /\ file = Absent
    /\ letter = ""
    /\ nkeys = 0
    /\ ran = <<>>
    /\ out = <<Wrote("banner", <<>>)>>
    /\ asked = {}

Init == PipeInit /\ EngineInit /\ StoreInit /\ DuplexInit

Next ==
    \/ ReadLine
    \/ Echo
    \/ \E k \in Keys : ReadKey(k)
    \/ HandleRun
    \/ HandleRunNoConsume
    \/ HandleRunner
    \/ HandleRepeat
    \/ HandleSaveLast
    \/ HandleSkip
    \/ HandleShowHelp
    \/ HandleRunShell
    \/ HandleRunRaw
    \/ HandleExit
    \/ HandleSkipWhile
    \/ HandleSkipUntil

Spec == Init /\ [][Next]_vars

WriterStep == (\E text \in Chunks : Write(text)) \/ CloseMark \/ CloseWrite

ReaderStep ==
    \/ ReadLineCall \/ ReadLineParts \/ ReadLineCheckClosed \/ ReadLineWait
    \/ ReadCharCall \/ ReadCharLocked \/ ReadCharWait

PipeNext ==
    \/ \E text \in Chunks : Write(text)
    \/ CloseMark
    \/ CloseWrite
    \/ ReadLineCall
    \/ ReadLineParts
    \/ ReadLineCheckClosed
    \/ ReadLineWait
    \/ ReadCharCall
    \/ ReadCharLocked
    \/ ReadCharWait

PipeOnlyInit == PipeInit /\ EngineIdle /\ StoreInit /\ DuplexInit

PipeSpec == PipeOnlyInit /\ [][PipeNext]_vars

\* the reader and the writer are threads that keep running
PipeFairSpec ==
    /\ PipeSpec
    /\ WF_vars(ReaderStep)
    /\ WF_vars(WriterStep)

\* ------------------------------------------------------------------------
\* The engine with a Pipe as its input stream (test.py: stdin is one end of
\* a bipipe, written and closed by the test's thread): run() calls
\* stdin.readline() and waits for it to return
\* ------------------------------------------------------------------------
\* the keystrokes the operator supplies: skip and run without consuming
FeedKeys == {" ", "&"}

\* run(): the call of stdin.readline()
StdinReadLine ==
    /\ pc = "readline"
    /\ rpc = "idle"
    /\ pc' = "reading"
    /\ rpc' = "rl_parts"
    /\ line_parts' = <<>>
    /\ new_parts' = <<>>
    /\ UNCHANGED <<buffer, closed, event, wpc, chunks, results>>
    /\ UNCHANGED <<program, stdin, stdin_closed, line, c, command, history, file,
                   letter, nkeys, ran, out, asked, storeVars, duplexVars>>

\* run(): readline has returned; line = (its value).strip(), '' ends the loop
StdinReturned ==
    /\ pc = "reading"
    /\ rpc = "idle"
    /\ LET raw == results[Len(results)].value IN
       /\ line' = Strip(raw)
       /\ pc' = IF Strip(raw) = <<>> THEN "done" ELSE "echo"
    /\ ran' = <<>> /\ out' = <<>> /\ asked' = {}
    /\ UNCHANGED <<program, stdin, stdin_closed, c, command, history, file, letter,
                   nkeys, pipeVars, storeVars, duplexVars>>

FeedReaderStep == ReadLineParts \/ ReadLineCheckClosed \/ ReadLineWait

FeedEngineStep ==
    \/ StdinReadLine \/ StdinReturned \/ Echo
    \/ (\E k \in FeedKeys : ReadKey(k))
    \/ HandleSkip \/ HandleRunNoConsume

FeedNext ==
    \/ \E text \in Chunks : Write(text)
    \/ CloseMark
    \/ CloseWrite
    \/ ReadLineParts
    \/ ReadLineCheckClosed
    \/ ReadLineWait
    \/ StdinReadLine
    \/ StdinReturned
    \/ Echo
    \/ \E k \in FeedKeys : ReadKey(k)
    \/ HandleSkip
    \/ HandleRunNoConsume

FeedInit == PipeInit /\ EngineIdle /\ StoreInit /\ DuplexInit

FeedSpec == FeedInit /\ [][FeedNext]_vars

\* the writer, the reader inside readline and the engine are threads that
\* keep being scheduled; the operator answers every prompt while the
\* keystrokes last
FeedFairSpec ==
    /\ FeedSpec
    /\ WF_vars(WriterStep)
    /\ WF_vars(FeedReaderStep)
    /\ WF_vars(FeedEngineStep)

\* the store alone, called by the threads
StoreNext ==
    \/ \E t \in Threads, op \in StoreCalls : Call(t, op)
    \/ \E t \in Threads : AcquireFile(t)
    \/ \E t \in Threads : AcquireMutex(t)
    \/ \E t \in Threads : Load(t)
    \/ \E t \in Threads : Truncate(t)
    \/ \E t \in Threads : WriteDoc(t)
    \/ \E t \in Threads : ReleaseMutex(t)
    \/ \E t \in Threads : ReleaseFile(t)

StoreOnlyInit == PipeInit /\ EngineIdle /\ StoreInit /\ DuplexInit

StoreSpec == StoreOnlyInit /\ [][StoreNext]_vars

\* the store called by the threads, on a data.json that may be malformed
StoreFaultNext ==
    \/ Corrupt
    \/ \E t \in Threads, op \in StoreCalls : Call(t, op)
    \/ \E t \in Threads : AcquireFile(t)
    \/ \E t \in Threads : AcquireMutex(t)
    \/ \E t \in Threads : Load(t)
    \/ \E t \in Threads : Truncate(t)
    \/ \E t \in Threads : WriteDoc(t)
    \/ \E t \in Threads : ReleaseMutex(t)
    \/ \E t \in Threads : ReleaseFile(t)

StoreFaultSpec == StoreOnlyInit /\ [][StoreFaultNext]_vars

\* the two ends of a duplex channel, each written, closed and read
DuplexNext ==
    \/ \E e \in Ends, text \in DuplexChunks : EndWrite(e, text)
    \/ \E e \in Ends : EndClose(e)
    \/ \E e \in Ends : EndReadChar(e)
    \/ \E e \in Ends : EndReadLine(e)

DuplexOnlyInit == PipeInit /\ EngineIdle /\ StoreInit /\ DuplexInit

DuplexSpec == DuplexOnlyInit /\ [][DuplexNext]_vars

\* ------------------------------------------------------------------------
\* Properties of the blocking stream
\* ------------------------------------------------------------------------
OnlyOp(op, i) == \A j \in 1..i : results[j].op = op

\* C1: while the reader has only called readline, its i-th result is the
\* i-th newline-terminated line of the concatenation of everything written,
\* however the text was split into write calls.
C1_ReadLineReturnsWrittenLines ==
    \A i \in 1..Len(results) :
        (OnlyOp("readline", i) /\ i <= Len(CompleteLines(written)))
            => results[i].value = CompleteLines(written)[i]

\* a line written in two chunks ("a", then "b\n") came back as one line
C1_Witness ==
    /\ Len(chunks) >= 2 /\ chunks[1] = <<"a">> /\ chunks[2] = <<"b", NL>>
    /\ Len(results) >= 1
    /\ results[1] = [op |-> "readline", value |-> <<"a", "b", NL>>]

\* C2: while the reader has only called readchar, its i-th result is the
\* i-th character written, across chunk boundaries.
C2_ReadCharReturnsWrittenChars ==
    \A i \in 1..Len(results) :
        (OnlyOp("readchar", i) /\ i <= Len(written))
            => results[i].value = <<written[i]>>

\* a three-character chunk was split and the reading went on into it from
\* the chunk before
C2_Witness ==
    /\ Len(chunks) >= 2 /\ chunks[1] = <<"a">> /\ chunks[2] = <<"a", NL, "b">>
    /\ Len(results) = 3 /\ OnlyOp("readchar", 3)
    /\ results[3].value = <<NL>>

\* the writer has closed and an earlier readline has taken the close marker
DrainedClosed == wpc = "done" /\ buffer = <<>>

\* C3: a readline call made on a closed and drained stream returns, and
\* returns the empty string.
C3_EofIsIdempotent ==
    (DrainedClosed /\ rpc = "rl_parts")
        ~> (rpc = "idle" /\ results # <<>> /\ results[Len(results)].value = <<>>)

\* ------------------------------------------------------------------------
\* Properties of the dispatch engine
\* ------------------------------------------------------------------------
\* the keystroke k has just been read and resolved for the current line
Dispatched(k) == pc = "handle" /\ asked = {"keystroke"} /\ c = k

Bindings == read_json(file)

LineEcho == <<Wrote("line", line \o <<NL>>)>>

\* C4: run_no_consume runs its command against the current line and never
\* advances the input, whatever the exit status: the same line is echoed
\* again and the next keystroke is read and dispatched against it.
C4_RunNoConsumeKeepsLine ==
    [][ /\ Handling("run_no_consume") =>
            /\ pc' = "echo" /\ line' = line /\ stdin' = stdin
            /\ Len(ran') = 1
            /\ ran'[1].full = full_command(history'[1].command, line)
        /\ (pc = "echo" /\ command.kind = "run_no_consume") =>
            /\ out' = LineEcho /\ pc' = "key" /\ line' = line /\ stdin' = stdin
        /\ pc = "key" => (line' = line /\ stdin' = stdin)
      ]_vars

\* run_no_consume ran a command that failed, and a line is still unread
C4_Witness ==
    /\ pc = "echo" /\ command.kind = "run_no_consume"
    /\ ran = <<Ran(<<"x", " ", "a">>, FALSE)>>
    /\ line = <<"a">>
    /\ stdin # <<>>

\* C5: dispatching a key bound to (command, consume) runs "<command> <line>"
\* without writing a prompt or reading from the terminal; with consume true
\* the engine goes on to read the next input line, with consume false it
\* echoes the same line and reads another keystroke.
C5_BoundKeyRunsStoredCommand ==
    [][ /\ \A k \in Keys :
            (Dispatched(k) /\ k \in DOMAIN Bindings) =>
                /\ Len(ran') = 1
                /\ ran'[1].full = full_command(Bindings[k].command, line)
                /\ out' = <<>> /\ asked' = {} /\ nkeys' = nkeys
                /\ line' = line
                /\ pc' = IF Bindings[k].consume THEN "readline" ELSE "echo"
        /\ (pc = "echo" /\ command.kind = "runner") =>
            (out' = LineEcho /\ pc' = "key" /\ line' = line /\ stdin' = stdin)
      ]_vars

\* the key c, bound to ("x", consume), ran "x a" which failed, and the
\* engine is about to read the next line
C5_Witness ==
    /\ pc = "readline" /\ c = "c" /\ command = Instance("runner", <<"x">>, TRUE)
    /\ ran = <<Ran(<<"x", " ", "a">>, FALSE)>>

\* C6: when the key dispatched is the one save_last last wrote, and what it
\* saved is the latest '!' run, the dispatch runs the same command on the
\* line without a prompt and advances exactly when that '!' run would have.
C6_SavedKeyReproducesRun ==
    [][ (/\ Dispatched(letter)
         /\ command.kind = "runner"
         /\ history = Remember(command.command, TRUE)
         /\ command.consume) =>
            /\ Len(ran') = 1
            /\ ran'[1].full = full_command(history[1].command, line)
            /\ out' = <<>> /\ asked' = {}
            /\ pc' = Finish(RunResult(ran'[1].succeeded))
      ]_vars

\* C7: handling a line with skip_while obtains the regex (once) and then
\* consumes the line when it matches, without a keystroke being read for
\* the next line; on the first line that does not match the command is
\* done, the line stays, and a fresh keystroke is read for it.
C7_SkipWhileConsumesMatches ==
    [][ /\ Handling("skip_while") =>
            /\ command'.regex_set
            /\ command.regex_set => command'.regex = command.regex
            /\ Search(command'.regex, line) =>
                   (pc' = "readline" /\ ~done_processing(command'))
            /\ ~Search(command'.regex, line) =>
                   (pc' = "echo" /\ done_processing(command') /\ line' = line)
        /\ (pc = "echo" /\ command.kind = "skip_while") =>
            /\ line' = line
            /\ pc' = IF done_processing(command) THEN "key" ELSE "handle"
            /\ nkeys' = nkeys
        /\ (pc = "readline" /\ command.kind = "skip_while") =>
            (command' = command /\ nkeys' = nkeys)
      ]_vars

\* the same statement for cli-process.py alone, whose module defines prompt
SkipWhileInCliProcess ==
    [][ program = "cli-process" =>
        /\ Handling("skip_while") =>
            /\ command'.regex_set
            /\ command.regex_set => command'.regex = command.regex
            /\ Search(command'.regex, line) =>
                   (pc' = "readline" /\ ~done_processing(command'))
            /\ ~Search(command'.regex, line) =>
                   (pc' = "echo" /\ done_processing(command') /\ line' = line)
        /\ (pc = "echo" /\ command.kind = "skip_while") =>
            /\ line' = line
            /\ pc' = IF done_processing(command) THEN "key" ELSE "handle"
            /\ nkeys' = nkeys
      ]_vars

\* C8: after store(k, cmd, flag) a lookup of k, which reads nothing but
\* data.json, returns the command that runs cmd and reports flag.
C8_StoreLookupRoundTrip ==
    [][ (Handling("save_last") /\ history # <<>>) =>
            /\ lookup(file', letter')
                   = Instance("runner", history[1].command, history[1].consume)
            /\ RunnerResult(lookup(file', letter').consume, TRUE) = history[1].consume
            /\ RunnerResult(lookup(file', letter').consume, FALSE) = history[1].consume
      ]_vars

\* save_last stored ("y", consume false) under the key c, over an earlier
\* binding of c
C8_Witness ==
    /\ pc = "echo" /\ command.kind = "save_last" /\ letter = "c"
    /\ history = Remember(<<"y">>, FALSE)
    /\ lookup(file, "c") = Instance("runner", <<"y">>, FALSE)

\* C9: a keystroke that has a binding in the store resolves to the stored
\* shell command, also when the key is one of the built-in keys.
C9_UserBindingFirst ==
    [][ (pc = "key" /\ c' \in DOMAIN Bindings) =>
            /\ pc' = "handle"
            /\ command' = Instance("runner", Bindings[c'].command, Bindings[c'].consume)
            /\ command'.kind \notin {commands(program)[k] : k \in DOMAIN commands(program)}
      ]_vars

\* the built-in key EOT, bound by save_last, resolved to the stored command
C9_Witness ==
    /\ Dispatched(EOT) /\ EOT \in DOMAIN Bindings /\ command.kind = "runner"

\* C10 as stated: the step that follows the dispatch of EOT ends the engine.
C10_EotAlwaysExits ==
    [][ Dispatched(EOT) => pc' = "exited" ]_vars

\* C10: when EOT has no binding in the store, the step that follows its
\* dispatch ends the engine, whatever is left of the input, and the engine
\* takes no step after that.
C10_UnboundEotExits ==
    [][ /\ (Dispatched(EOT) /\ EOT \notin DOMAIN Bindings) =>
            (pc' = "exited" /\ stdin' = stdin /\ nkeys' = nkeys)
        /\ pc # "exited"
      ]_vars

\* the engine has exited with a line unread and the input still open
C10_Witness ==
    /\ pc = "exited" /\ c = EOT /\ stdin # <<>> /\ ~stdin_closed

\* ------------------------------------------------------------------------
\* C11: the main loop ends at an input read only when readline returned
\* the empty string (end of stream): a read that takes a line from the
\* input never ends the loop, so each line read is echoed and handled
\* before a later one is read and no line is dropped.
\* ------------------------------------------------------------------------
C11_LoopEndsOnlyAtEof ==
    [][(pc = "readline" /\ pc' = "done") => stdin = <<>>]_vars

\* ------------------------------------------------------------------------
\* C13: handling the '!' built-in advances to the next input line whether
\* the command exited successfully or not.
\* ------------------------------------------------------------------------
C13_RunConsumesUnconditionally ==
    [][Handling("run") => pc' = "readline"]_vars

\* C13 (as the code has it): the '!' built-in prompts for a command, runs
\* it once on the current line and advances exactly when the command
\* exited successfully; after a failure the same line is presented again.
C13_RunConsumesOnSuccess ==
    [][Handling("run") =>
            /\ asked' = {"command"}
            /\ Len(ran') = 1
            /\ \E raw \in CommandInputs :
                   ran'[1].full = full_command(Strip(raw), line)
            /\ line' = line /\ stdin' = stdin
            /\ pc' = IF ran'[1].succeeded THEN "readline" ELSE "echo"
      ]_vars

C13_Witness ==
    /\ pc = "echo"
    /\ command.kind = "run"
    /\ asked = {"command"}
    /\ ran = <<Ran(<<"x", " ", "a">>, FALSE)>>
    /\ history = Remember(<<"x">>, TRUE)

\* ------------------------------------------------------------------------
\* C14: with a '!' or '&' in the history, handling '^' runs that entry's
\* command on the current line without prompting and leaves the history
\* alone; it advances to the next line exactly when the entry's consume
\* flag is true and the run exited successfully, and otherwise presents
\* the same line again.
\* ------------------------------------------------------------------------
C14_RepeatRerunsLast ==
    [][(Handling("repeat") /\ history # <<>>) =>
            /\ Len(ran') = 1
            /\ ran'[1].full = full_command(history[1].command, line)
            /\ out' = <<>> /\ asked' = {}
            /\ history' = history
            /\ line' = line /\ stdin' = stdin
            /\ pc' = IF history[1].consume /\ ran'[1].succeeded
                     THEN "readline" ELSE "echo"
      ]_vars

\* '^' after a '!' whose command now fails: the line stays
C14_Witness ==
    /\ pc = "echo"
    /\ command.kind = "repeat"
    /\ history = Remember(<<"x">>, TRUE)
    /\ ran = <<Ran(<<"x", " ", "a">>, FALSE)>>
    /\ asked = {}

\* '^' after an '&': the command succeeds and the line still stays
C14_WitnessNoConsume ==
    /\ pc = "echo"
    /\ command.kind = "repeat"
    /\ history = Remember(<<"y">>, FALSE)
    /\ ran = <<Ran(<<"y", " ", "a">>, TRUE)>>

\* ------------------------------------------------------------------------
\* C15: handling a line with skip_until obtains the regex (once) and then
\* consumes the line when it does not match, without a keystroke being
\* read for the next line; on the first line that matches the command is
\* done, the line stays, and a fresh keystroke is read for it.
\* ------------------------------------------------------------------------
C15_SkipUntilConsumesNonMatches ==
    [][ /\ Handling("skip_until") =>
            /\ command'.regex_set
            /\ command.regex_set => command'.regex = command.regex
            /\ ~Search(command'.regex, line) =>
                   (pc' = "readline" /\ ~done_processing(command'))
            /\ Search(command'.regex, line) =>
                   (pc' = "echo" /\ done_processing(command') /\ line' = line)
        /\ (pc = "echo" /\ command.kind = "skip_until") =>
            /\ line' = line
            /\ pc' = IF done_processing(command) THEN "key" ELSE "handle"
            /\ nkeys' = nkeys
        /\ (pc = "readline" /\ command.kind = "skip_until") =>
            (command' = command /\ nkeys' = nkeys)
      ]_vars

Delivered == Flatten([i \in 1..Len(results) |-> results[i].value])

Pending == Flatten([i \in 1..Len(buffer) |-> buffer[i].text])

IsPrefix(s, t) == Len(s) <= Len(t) /\ SubSeq(t, 1, Len(s)) = s

C19_ReturnedIsPrefixOfWritten ==
    /\ IsPrefix(Delivered, written)
    /\ Delivered \o line_parts \o new_parts \o Pending = written

\* one chunk "a\nb" split by a readchar, a readline and a readchar
C19_Witness ==
    /\ chunks = <<<<"a", NL, "b">>>>
    /\ results = <<[op |-> "readchar", value |-> <<"a">>],
                   [op |-> "readline", value |-> <<NL>>],
                   [op |-> "readchar", value |-> <<"b">>]>>

\* ------------------------------------------------------------------------
\* C20: a reader waiting for a notification in readchar or readline, on a
\* stream whose buffer is empty, when close() has set the flag: the call
\* returns, and returns '' when it holds no part of a line (a readline
\* that had collected the start of a line returns that start).
\* ------------------------------------------------------------------------
BlockedAtClose(at) ==
    /\ rpc = at
    /\ event = 0
    /\ buffer = <<>>
    /\ wpc = "close_write"

LastReturned(op, value) ==
    /\ rpc = "idle"
    /\ results # <<>>
    /\ results[Len(results)] = [op |-> op, value |-> value]

C20_CloseWakesBlockedReader ==
    /\ BlockedAtClose("rc_wait") ~> LastReturned("readchar", <<>>)
    /\ (BlockedAtClose("rl_wait") /\ line_parts = <<>>)
           ~> LastReturned("readline", <<>>)
    /\ BlockedAtClose("rl_wait") ~> (rpc = "idle")

C20_Witness ==
    /\ BlockedAtClose("rl_wait")
    /\ line_parts = <<>>
    /\ results # <<>>

C20_WitnessReadChar ==
    /\ BlockedAtClose("rc_wait")
    /\ chunks # <<>>

\* ------------------------------------------------------------------------
\* C12: the input stream is a Pipe that receives finitely many writes and
\* is then closed; if every line presented is eventually consumed, run()
\* eventually reads the end of the stream and returns.
\* ------------------------------------------------------------------------
LinePresented == pc \in {"echo", "key", "handle"}

C12_TerminatesOnEof ==
    (LinePresented ~> ~LinePresented) => <>(pc = "done")

\* ------------------------------------------------------------------------
\* Properties of the keybinding store under concurrent callers
\* ------------------------------------------------------------------------
\* between acquiring both locks and releasing the first of them
InSection(t) == wk[t].pc \in {"load", "open", "write", "unmutex"}

Quiescent == \A t \in Threads : wk[t].pc \in {"idle", "dead"}

\* the bindings after the store calls of s, applied in order
RECURSIVE Replay(_)
Replay(s) ==
    IF s = <<>> THEN EmptyDict
    ELSE LET op == s[Len(s)].op
             before == Replay(SubSeq(s, 1, Len(s) - 1))
         IN IF op.kind = "store"
            THEN SetBinding(before, op.char, op.command, op.consume)
            ELSE before

\* C17: the load-modify-save sections of store and lookup calls made by
\* threads of one process and of several processes never overlap, and once
\* all calls have returned data.json holds every stored binding: the
\* bindings are those of the store calls applied in the order they saved.
C17_StoreOperationsAtomic ==
    /\ \A t, u \in Threads : (InSection(t) /\ InSection(u)) => t = u
    /\ Quiescent => (~truncated /\ read_json(file) = Replay(saves))

\* C18: while no call holds the store lock data.json is absent or is the
\* complete document written by the last call that saved, and no call
\* loads a document that is only partially written.
HoldsLock(t) ==
    wk[t].pc \in {"mutex", "load", "open", "write", "unmutex", "unflock"}

C18_DocumentAlwaysComplete ==
    /\ (\A t \in Threads : ~HoldsLock(t)) =>
           /\ ~truncated
           /\ file = IF saves = <<>> THEN Absent
                     ELSE with_data(saves[Len(saves)].doc)
    /\ \A t \in Threads : ~wk[t].raised

\* ------------------------------------------------------------------------
\* C21: a reader waiting for a notification always has one coming when the
\* buffer holds a character or the close marker (the notification of a
\* write or close made while or just before it waits is not lost), and a
\* reader waiting with something unread in the buffer eventually returns.
\* ------------------------------------------------------------------------
Waiting == rpc \in {"rl_wait", "rc_wait"}

HasUnread == \E i \in 1..Len(buffer) : buffer[i] = CLOSE \/ buffer[i].text # <<>>

C22_StaleNotificationsIgnored ==
    [][ /\ (results' # results /\ wpc = "run") =>
            LET r == results'[Len(results')] IN
            /\ r.value # <<>>
            /\ r.op = "readline" => r.value[Len(r.value)] = NL
        /\ (rpc = "rc_wait" /\ rpc' # rpc) =>
            (rpc' = "rc_locked" /\ results' = results)
        /\ (rpc = "rl_wait" /\ rpc' # rpc) =>
            (rpc' = "rl_parts" /\ results' = results)
        /\ (rpc = "rc_locked" /\ ~HasUnread /\ rpc' # rpc) =>
            (rpc' = "rc_wait" /\ results' = results)
        /\ (rpc = "rl_check" /\ wpc = "run" /\ rpc' # rpc) =>
            (rpc' = "rl_wait" /\ results' = results)
      ]_vars

\* the notification of write('') has been taken and nothing was returned
C22_Witness ==
    /\ chunks = <<<<>>>>
    /\ wpc = "run"
    /\ rpc = "rc_wait"
    /\ event = 0
    /\ buffer = <<>>
    /\ results = <<>>

\* ------------------------------------------------------------------------
\* C23: handling '!' sets the history to the command read and consume
\* true, handling '&' to the command read and consume false, the command
\* being the one that was run; no other step of the engine changes the
\* history.
\* ------------------------------------------------------------------------
C23_OnlyExplicitRunsWriteHistory ==
    [][ /\ Handling("run") =>
            /\ \E raw \in CommandInputs : history' = Remember(Strip(raw), TRUE)
            /\ history'[1].consume
            /\ ran'[1].full = full_command(history'[1].command, line)
        /\ Handling("run_no_consume") =>
            /\ \E raw \in CommandInputs : history' = Remember(Strip(raw), FALSE)
            /\ ~history'[1].consume
            /\ ran'[1].full = full_command(history'[1].command, line)
        /\ ~(Handling("run") \/ Handling("run_no_consume")) => history' = history
      ]_vars

\* save_last has run after an '&' and the history is still that '&'
C23_Witness ==
    /\ pc = "echo"
    /\ command.kind = "save_last"
    /\ asked = {"letter"}
    /\ history = Remember(<<"y">>, FALSE)
    /\ DOMAIN Bindings # {}

\* ------------------------------------------------------------------------
\* C24: a skip_while or skip_until instance asks the terminal for its
\* regex on its first handle_line, and only then: every later line it
\* handles is matched against that regex without a prompt; a '\' or '/'
\* keystroke resolved to the built-in gives an instance with no regex yet.
\* ------------------------------------------------------------------------
Filters == {"skip_while", "skip_until"}

C24_RegexPromptedOnce ==
    [][ /\ (pc = "handle" /\ command.kind \in Filters /\ ~command.regex_set) =>
            /\ asked' = {"regex"}
            /\ command'.regex_set
            /\ \E raw \in RegexInputs : command'.regex = StripNL(raw)
        /\ (pc = "handle" /\ command.kind \in Filters /\ command.regex_set) =>
            /\ asked' = {}
            /\ command'.regex_set
            /\ command'.regex = command.regex
        /\ (pc = "key" /\ pc' = "handle" /\ command'.kind \in Filters) =>
            ~command'.regex_set
      ]_vars

\* ------------------------------------------------------------------------
\* C25: a filter instance that has reported done stays done, handle_line
\* is never called on it again, and it is replaced only by the command
\* resolved from the next keystroke, which starts not done.
\* ------------------------------------------------------------------------
Done == command.kind \in Filters /\ command.finished

C25_DoneIsTerminal ==
    [][ /\ pc' = "handle" => ~(command'.kind \in Filters /\ command'.finished)
        /\ Done =>
            \/ command' = command
            \/ /\ pc = "key"
               /\ asked' = {"keystroke"}
               /\ ~(command'.kind \in Filters /\ command'.finished)
      ]_vars

\* skip_while has met its first line without a match and the next
\* keystroke is awaited
C25_Witness ==
    /\ program = "cli-process"
    /\ Done
    /\ pc = "key"
    /\ command.regex_set
    /\ ~Search(command.regex, line)

\* ------------------------------------------------------------------------
\* C26: no step of the engine removes a binding from data.json; the only
\* step that changes the (command, consume) pair of a key or adds a key is
\* save_last's store, and it does so for its destination key alone: the
\* lookups and menus of every keystroke write the same bindings back.
\* ------------------------------------------------------------------------
C26_BindingsNeverImplicitlyChanged ==
    [][ LET after == read_json(file') IN
        /\ DOMAIN Bindings \subseteq DOMAIN after
        /\ \A k \in DOMAIN after :
               (k \notin DOMAIN Bindings \/ after[k] # Bindings[k]) =>
                   /\ Handling("save_last")
                   /\ k = letter'
                   /\ after[k] = history[1]
      ]_vars

\* a store to one key with bindings of two other keys in the file
C26_Witness ==
    /\ pc = "echo"
    /\ command.kind = "save_last"
    /\ asked = {"letter"}
    /\ letter = "z"
    /\ DOMAIN Bindings = {"c", "!", "z"}
    /\ Bindings["z"] # Bindings["c"]

\* ------------------------------------------------------------------------
\* C27: a call that finds data.json malformed raises without writing: none
\* of its steps changes the file, it ends with the error, and it releases
\* DATA_LOCK and the file lock (once every call has returned or failed no
\* lock is held, and calls made after a failure do get the locks); a call
\* that finds no file loads the empty store and does not fail.
\* ------------------------------------------------------------------------
Malformed == truncated /\ ncalls > 0 /\ saves = <<>>

C27_LoadFailureIsClean ==
    /\ [][\A t \in Threads :
            /\ (wk[t].pc = "load" /\ wk'[t] # wk[t]) =>
                   /\ wk'[t].raised = truncated
                   /\ (~file.exists) => wk'[t].data = Body(wk[t].op, EmptyDict)
            /\ (wk[t].raised /\ wk'[t] # wk[t]) =>
                   /\ file' = file /\ truncated' = truncated
                   /\ wk'[t].raised
                   /\ wk'[t].pc \in {"unflock", "dead"}
         ]_vars
    /\ [](\A t \in Threads :
            /\ wk[t].pc = "dead" => (wk[t].raised /\ mutex[Proc(t)] # t)
            /\ wk[t].raised => wk[t].pc \in {"unmutex", "unflock", "dead"})
    /\ [](Quiescent => (flock = "none" /\ \A p \in Procs : mutex[p] = "none"))

\* one call has failed on the malformed file and a later call of another
\* thread of the same process holds both locks
C27_Witness ==
    /\ Malformed
    /\ wk["t1"].pc = "dead"
    /\ wk["t2"].pc = "load"
    /\ flock = "p"
    /\ mutex["p"] = "t2"

\* ------------------------------------------------------------------------
\* C28: in the pair (A, B) what an end has read is a prefix of what the
\* other end has written, in order, whatever happens in the other
\* direction; an end reads '' (or a line without newline) only when the
\* other end has closed and everything it wrote has been read; close() on
\* an end marks only the Pipe it writes to.
\* ------------------------------------------------------------------------
Peer(e) == IF e = "A" THEN "B" ELSE "A"

HasClosed(e) == twin[WritesTo(e)].closed

Unterminated(v) == v = <<>> \/ v[Len(v)] # NL

C28_DuplexWiring ==
    /\ [](\A e \in Ends :
            /\ IsPrefix(Flatten(got[e]), Flatten(sent[Peer(e)]))
            /\ \A i \in 1..Len(got[e]) :
                   (got[e][i] = <<>> \/ (Unterminated(got[e][i]) /\ Len(got[e][i]) > 1)) =>
                       /\ HasClosed(Peer(e))
                       /\ Flatten(SubSeq(got[e], 1, i)) = Flatten(sent[Peer(e)]))
    /\ [][\A e \in Ends :
            (~HasClosed(e) /\ HasClosed(e)') =>
                /\ twin'[ReadsFrom(e)] = twin[ReadsFrom(e)]
                /\ got' = got /\ sent' = sent]_vars

\* A has closed and B has drained to the end of the stream, and A has
\* afterwards read what B wrote
C28_Witness ==
    /\ HasClosed("A") /\ ~HasClosed("B")
    /\ sent["A"] = <<<<"b", NL>>>>
    /\ got["B"] = <<<<"b", NL>>, <<>>>>
    /\ sent["B"] = <<<<"a">>, <<"b", NL>>>>
    /\ got["A"] = <<<<"a", "b", NL>>>>

\* ------------------------------------------------------------------------
\* C29: with an empty history, handling '^' runs no command and handling
\* '>' reads its destination key and stores nothing; both end run() with
\* an error (no step follows it) and leave data.json as it was.
\* ------------------------------------------------------------------------
C29_EmptyHistoryFails ==
    [][ /\ (Handling("repeat") /\ history = <<>>) =>
            /\ ran' = <<>>
            /\ pc' = "error"
            /\ file' = file
        /\ (Handling("save_last") /\ history = <<>>) =>
            /\ ran' = <<>>
            /\ asked' = {"letter"}
            /\ pc' = "error"
            /\ file' = file
            /\ read_json(file') = Bindings
        /\ pc # "error"
      ]_vars

\* '>' was the first command, on a store that holds bindings
C29_Witness ==
    /\ pc = "error"
    /\ command.kind = "save_last"
    /\ asked = {"letter"}
    /\ history = <<>>
    /\ letter = "c"
    /\ Bindings = read_json(store(Absent, "c", <<"x">>, TRUE))

\* '^' was the first command
C29_WitnessRepeat ==
    /\ pc = "error"
    /\ command.kind = "repeat"
    /\ history = <<>>
    /\ ran = <<>>

====
